---- MODULE Spec2Model ----
(***************************************************************************)
(* Model of Restaurant_Reviews_Chatbot.py: the Restaurant class (text      *)
(* cleaning, sentiment thresholding, the feedback loop over the 'Review'   *)
(* column, result export, chart, summary) and the __main__ driver.         *)
(*                                                                         *)
(* Texts are sequences of one-character strings.  A value of the 'Review'  *)
(* column is a record [kind, val]: kind "str" for a text, kind "nan" for   *)
(* the float NaN that pandas.read_csv yields for an empty cell or for a    *)
(* cell holding one of its default NA strings.                             *)
(* Polarity scores are integers in hundredths: 10 stands for 0.1.          *)
(***************************************************************************)
EXTENDS Integers, Sequences, FiniteSets, TLC

VARIABLES
    pc,                 \* position of the run: start, loop, plot, summary, exited
    exit_code,          \* "running", "0" or "1"
    data,               \* data['Review'] after load_data
    pos,                \* number of values self.input_iterator has yielded
    sentiment_counts,   \* self.sentiment_counts
    sentiment_scores,   \* self.sentiment_scores
    processed_reviews,  \* self.processed_reviews
    text,               \* argument of the last clean_text call
    cleaned_text,       \* result of the last clean_text call
    scorer_log,         \* calls made to TextBlob(...).sentiment.polarity, in order
    results_csv,        \* the sentiment_results_<timestamp>.csv file
    chart_png,          \* TRUE when sentiment_pie_chart.png was written
    summary,            \* what print_summary printed
    log                 \* messages passed to log_and_print, in order

vars == <<pc, exit_code, data, pos, sentiment_counts, sentiment_scores,
          processed_reviews, text, cleaned_text, scorer_log, results_csv,
          chart_png, summary, log>>

(***************************************************************************)
(* Bounds                                                                  *)
(***************************************************************************)
MaxReviews == 2
MaxLen == 3

(***************************************************************************)
(* Characters and texts                                                    *)
(***************************************************************************)
UpperChars == {"A", "B", "H", "I", "P", "S", "U", "W"}

LowerChars == {"a", "b", "e", "g", "h", "i", "l", "n", "o", "p", "r", "s",
               "t", "u", "w", "y"}

SpaceChars == {" ", "\t"}

\* str.lower() on one character
LowerChar(c) ==
    CASE c = "A" -> "a"
      [] c = "B" -> "b"
      [] c = "H" -> "h"
      [] c = "I" -> "i"
      [] c = "P" -> "p"
      [] c = "S" -> "s"
      [] c = "U" -> "u"
      [] c = "W" -> "w"
      [] OTHER -> c

\* str.lower()
Lower(s) == [i \in 1..Len(s) |-> LowerChar(s[i])]

\* the regex class \w
IsWord(c) == c \in UpperChars \cup LowerChars \cup {"_", "0", "1"}

\* the regex class \s, and str.isspace()
IsSpace(c) == c \in SpaceChars

\* re.sub(r'[^\w\s]', '', s)
RemoveNonWordSpace(s) == SelectSeq(s, LAMBDA c : IsWord(c) \/ IsSpace(c))

RECURSIVE LStrip(_)
LStrip(s) ==
    IF s = <<>> THEN <<>>
    ELSE IF IsSpace(Head(s)) THEN LStrip(Tail(s)) ELSE s

RECURSIVE RStrip(_)
RStrip(s) ==
    IF s = <<>> THEN <<>>
    ELSE IF IsSpace(s[Len(s)]) THEN RStrip(SubSeq(s, 1, Len(s) - 1)) ELSE s

\* str.strip()
Strip(s) == RStrip(LStrip(s))

\* re.sub(r'\s+', ' ', s): every maximal run of whitespace becomes one space
RECURSIVE CollapseSpaces(_)
CollapseSpaces(s) ==
    IF s = <<>> THEN <<>>
    ELSE IF IsSpace(Head(s))
         THEN <<" ">> \o CollapseSpaces(LStrip(s))
         ELSE <<Head(s)>> \o CollapseSpaces(Tail(s))

Str(s) == [kind |-> "str", val |-> s]

NaN == [kind |-> "nan", val |-> <<>>]

\* clean_text with the two substitutions in the wrong order
clean_text_swapped(t) ==
    IF t.kind = "str"
    THEN Str(RemoveNonWordSpace(CollapseSpaces(Strip(Lower(t.val)))))
    ELSE t

\* Restaurant.clean_text: a value without .lower() raises inside the try and
\* the except branch returns it unchanged
clean_text(t) ==
    IF t.kind = "str"
    THEN Str(CollapseSpaces(Strip(RemoveNonWordSpace(Lower(t.val)))))
    ELSE t

(***************************************************************************)
(* Restaurant.__init__                                                     *)
(***************************************************************************)
greetings ==
    { <<"h", "e", "l", "l", "o">>,
      <<"h", "i">>,
      <<"h", "e", "y">>,
      <<"g", "r", "e", "e", "t", "i", "n", "g", "s">>,
      <<"s", "u", "p">>,
      <<"w", "h", "a", "t", "'", "s", " ", "u", "p">> }

Categories == {"Positive", "Neutral", "Negative"}

\* review.lower() in self.greetings, compared without lowercasing
IsGreetingCaseSensitive(review) == review.val \in greetings

\* review.lower() in self.greetings
IsGreeting(review) == Lower(review.val) \in greetings

(***************************************************************************)
(* Restaurant.get_sentiment                                                *)
(***************************************************************************)
PosThreshold == 10
NegThreshold == 0 - 10

\* the polarity values the scorer is taken to return: both thresholds, their
\* neighbours, zero and both ends of [-1.0, 1.0]
Scores == {-100, NegThreshold - 1, NegThreshold, 0, PosThreshold,
           PosThreshold + 1, 100}

\* what one call of the scorer does: return a polarity or raise
ScorerOutcomes ==
    {[raised |-> FALSE, polarity |-> s] : s \in Scores}
        \cup {[raised |-> TRUE, polarity |-> 0]}

\* the thresholds with >= and <= for > and <
CategoryOfInclusive(polarity) ==
    IF polarity >= PosThreshold THEN "Positive"
    ELSE IF polarity <= NegThreshold THEN "Negative"
    ELSE "Neutral"

\* the if / elif / else of get_sentiment
CategoryOf(polarity) ==
    IF polarity > PosThreshold THEN "Positive"
    ELSE IF polarity < NegThreshold THEN "Negative"
    ELSE "Neutral"

\* get_sentiment without its try / except: the scorer's error propagates
get_sentiment_propagating(scores, review, o) ==
    IF clean_text(review).kind # "str" \/ o.raised
    THEN [raised |-> TRUE, sentiment |-> "Neutral", polarity |-> 0,
          sentiment_scores |-> scores]
    ELSE [raised |-> FALSE, sentiment |-> CategoryOf(o.polarity),
          polarity |-> o.polarity,
          sentiment_scores |-> Append(scores, o.polarity)]

\* Restaurant.get_sentiment(review) when the scorer does o and
\* self.sentiment_scores is scores; the result also carries the new
\* self.sentiment_scores and whether an exception left the method
get_sentiment(scores, review, o) ==
    IF clean_text(review).kind # "str" \/ o.raised
    THEN [raised |-> FALSE, sentiment |-> "Neutral", polarity |-> 0,
          sentiment_scores |-> scores]
    ELSE [raised |-> FALSE, sentiment |-> CategoryOf(o.polarity),
          polarity |-> o.polarity,
          sentiment_scores |-> Append(scores, o.polarity)]

(***************************************************************************)
(* The input: values of the 'Review' column                                *)
(***************************************************************************)
SampleTexts ==
    { <<"h", "i">>,
      <<"H", "I">>,
      <<"W", "h", "a", "t", "'", "s", " ", "U", "p">>,
      <<"h", "i", "!">>,
      <<" ", "h", "i">>,
      <<"h", "i", " ", "a", "l", "l">>,
      <<"t", "a", "s", "t", "y">> }

ReviewValues == {Str(s) : s \in SampleTexts} \cup {NaN}

SeqsUpTo(S, n) == UNION {[1..k -> S] : k \in 0..n}

LoadFailures == {"FileNotFoundError", "ParserError", "NoReviewColumn"}

(***************************************************************************)
(* Init: a constructed Restaurant, before feedback()                       *)
(***************************************************************************)
Init ==
    /\ pc = "start"
    /\ exit_code = "running"
    /\ data = <<>>
    /\ pos = 0
    /\ sentiment_counts = [c \in Categories |-> 0]
    /\ sentiment_scores = <<>>
    /\ processed_reviews = <<>>
    /\ text = NaN
    /\ cleaned_text = NaN
    /\ scorer_log = <<>>
    /\ results_csv = [written |-> FALSE, rows |-> <<>>]
    /\ chart_png = FALSE
    /\ summary = [printed |-> FALSE, total |-> 0, statistics |-> FALSE]
    /\ log = <<>>

(***************************************************************************)
(* Restaurant.load_data, called at the top of feedback()                   *)
(***************************************************************************)
\* feedback() up to the loop when load_data returns a table whose 'Review'
\* column holds up to MaxReviews of the given values
LoadFrom(values) ==
    /\ pc = "start"
    /\ \E rows \in SeqsUpTo(values, MaxReviews) :
          data' = rows
    /\ pc' = "loop"
    /\ log' = Append(log, "Hi! I am Restaurant Owner")
    /\ UNCHANGED <<exit_code, pos, sentiment_counts, sentiment_scores,
                   processed_reviews, text, cleaned_text, scorer_log,
                   results_csv, chart_png, summary>>

LoadOk == LoadFrom(ReviewValues)

\* a failed load that is reported and then treated as an empty table
LoadFailContinues(f) ==
    /\ pc = "start"
    /\ pc' = "loop"
    /\ log' = log \o <<"Hi! I am Restaurant Owner",
                       IF f = "FileNotFoundError" THEN "Data file not found"
                       ELSE "Error loading data">>
    /\ UNCHANGED <<exit_code, data, pos, sentiment_counts, sentiment_scores,
                   processed_reviews, text, cleaned_text, scorer_log,
                   results_csv, chart_png, summary>>

\* read_csv raises (missing file, unparsable file) or the 'Review' column is
\* absent: both except branches call sys.exit(1); SystemExit is not an
\* Exception, so no handler of feedback() or of __main__ stops it
LoadFailExit(f) ==
    /\ pc = "start"
    /\ pc' = "exited"
    /\ exit_code' = "1"
    /\ log' = log \o <<"Hi! I am Restaurant Owner",
                       IF f = "FileNotFoundError" THEN "Data file not found"
                       ELSE "Error loading data">>
    /\ UNCHANGED <<data, pos, sentiment_counts, sentiment_scores,
                   processed_reviews, text, cleaned_text, scorer_log,
                   results_csv, chart_png, summary>>

LoadFail == \E f \in LoadFailures : LoadFailExit(f)

(***************************************************************************)
(* One iteration of the for loop of feedback()                             *)
(***************************************************************************)
\* the value the iterator yields next
NextReview == data[pos + 1]

\* the greeting branch: respond and continue
FeedbackGreeting ==
    /\ pc = "loop"
    /\ pos < Len(data)
    /\ NextReview.kind = "str"
    /\ IsGreeting(NextReview)
    /\ pos' = pos + 1
    /\ log' = log \o <<"Customer:", "Hello! How can I assist you?">>
    /\ UNCHANGED <<pc, exit_code, data, sentiment_counts, sentiment_scores,
                   processed_reviews, text, cleaned_text, scorer_log,
                   results_csv, chart_png, summary>>

\* the entry the scorer call made by get_sentiment leaves in scorer_log
ScorerCall(review, o) ==
    [arg |-> clean_text(review), raised |-> o.raised, polarity |-> o.polarity]

\* the scored branch: get_sentiment, tally, record
FeedbackScored ==
    /\ pc = "loop"
    /\ pos < Len(data)
    /\ NextReview.kind = "str"
    /\ ~IsGreeting(NextReview)
    /\ \E o \in ScorerOutcomes :
          LET r == get_sentiment(sentiment_scores, NextReview, o) IN
          /\ ~r.raised
          /\ text' = NextReview
          /\ cleaned_text' = clean_text(NextReview)
          /\ scorer_log' = Append(scorer_log, ScorerCall(NextReview, o))
          /\ sentiment_scores' = r.sentiment_scores
          /\ sentiment_counts' =
                 [sentiment_counts EXCEPT ![r.sentiment] = @ + 1]
          /\ processed_reviews' =
                 Append(processed_reviews,
                        [review |-> NextReview, sentiment |-> r.sentiment,
                         polarity |-> r.polarity])
    /\ pos' = pos + 1
    /\ log' = log \o <<"Customer:", "Prediction">>
    /\ UNCHANGED <<pc, exit_code, data, results_csv, chart_png, summary>>

\* an exception inside the try that is handled by retrying the same value
FeedbackErrorRetry ==
    /\ pc = "loop"
    /\ pos < Len(data)
    /\ NextReview.kind # "str"
    /\ UNCHANGED vars

\* the except branch of the loop body: review.lower() raises for a value
\* that is not a str, or get_sentiment lets an exception out; the value is
\* reported and skipped
FeedbackError ==
    /\ pc = "loop"
    /\ pos < Len(data)
    /\ \/ /\ NextReview.kind # "str"
          /\ UNCHANGED <<sentiment_scores, text, cleaned_text, scorer_log>>
       \/ /\ NextReview.kind = "str"
          /\ ~IsGreeting(NextReview)
          /\ \E o \in ScorerOutcomes :
                LET r == get_sentiment(sentiment_scores, NextReview, o) IN
                /\ r.raised
                /\ text' = NextReview
                /\ cleaned_text' = clean_text(NextReview)
                /\ scorer_log' = Append(scorer_log, ScorerCall(NextReview, o))
                /\ sentiment_scores' = r.sentiment_scores
    /\ pos' = pos + 1
    /\ log' = log \o <<"Customer:", "Error processing review">>
    /\ UNCHANGED <<pc, exit_code, data, sentiment_counts, processed_reviews,
                   results_csv, chart_png, summary>>

(***************************************************************************)
(* After the loop: save_results, plot_sentiment_percentages, print_summary *)
(***************************************************************************)
\* one row of the DataFrame built from a processed_reviews entry
ToRow(p) == <<p.review.val, p.sentiment, p.polarity>>

\* the end of feedback(): Goodbye, then save_results; ok is whether
\* DataFrame(...).to_csv(...) returned normally
FeedbackFinish ==
    /\ pc = "loop"
    /\ pos = Len(data)
    /\ \E ok \in BOOLEAN :
          IF ok
          THEN /\ results_csv' =
                    [written |-> TRUE,
                     rows |-> [i \in 1..Len(processed_reviews) |->
                                  ToRow(processed_reviews[i])]]
               /\ log' = log \o <<"Goodbye!", "Results saved">>
          ELSE /\ results_csv' = results_csv
               /\ log' = log \o <<"Goodbye!", "Error saving results">>
    /\ pc' = "plot"
    /\ UNCHANGED <<exit_code, data, pos, sentiment_counts, sentiment_scores,
                   processed_reviews, text, cleaned_text, scorer_log,
                   chart_png, summary>>

\* plot_sentiment_percentages without its try / except: the error reaches the
\* handler of __main__, which exits with status 1
PlotPropagating ==
    /\ pc = "plot"
    /\ \E ok \in BOOLEAN :
          IF ok
          THEN /\ chart_png' = TRUE
               /\ pc' = "summary"
               /\ UNCHANGED <<log, exit_code>>
          ELSE /\ chart_png' = chart_png
               /\ pc' = "exited"
               /\ exit_code' = "1"
               /\ log' = Append(log, "Fatal error in main execution")
    /\ UNCHANGED <<data, pos, sentiment_counts, sentiment_scores,
                   processed_reviews, text, cleaned_text, scorer_log,
                   results_csv, summary>>

\* Restaurant.plot_sentiment_percentages; ok is whether pie / savefig
\* returned normally
Plot ==
    /\ pc = "plot"
    /\ \E ok \in BOOLEAN :
          IF ok
          THEN /\ chart_png' = TRUE
               /\ log' = log
          ELSE /\ chart_png' = chart_png
               /\ log' = Append(log, "Error plotting sentiment chart")
    /\ pc' = "summary"
    /\ UNCHANGED <<exit_code, data, pos, sentiment_counts, sentiment_scores,
                   processed_reviews, text, cleaned_text, scorer_log,
                   results_csv, summary>>

\* sum(self.sentiment_counts.values())
Total(counts) == counts["Positive"] + counts["Neutral"] + counts["Negative"]

\* Restaurant.print_summary, then the normal end of __main__
PrintSummary ==
    /\ pc = "summary"
    /\ summary' = [printed |-> TRUE,
                   total |-> Total(sentiment_counts),
                   statistics |-> sentiment_scores # <<>>]
    /\ log' = Append(log, "Sentiment Analysis Summary")
    /\ pc' = "exited"
    /\ exit_code' = "0"
    /\ UNCHANGED <<data, pos, sentiment_counts, sentiment_scores,
                   processed_reviews, text, cleaned_text, scorer_log,
                   results_csv, chart_png>>

Next ==
    \/ LoadOk
    \/ LoadFail
    \/ FeedbackGreeting
    \/ FeedbackScored
    \/ FeedbackError
    \/ FeedbackFinish
    \/ Plot
    \/ PrintSummary

Spec == Init /\ [][Next]_vars

(***************************************************************************)
(* The same run over one value of each kind (a greeting, a text that is    *)
(* scored, a value that is not a text), with the fairness of a sequential  *)
(* program: a step that can be taken is eventually taken.                  *)
(***************************************************************************)
FairReviewValues == {Str(<<"H", "I">>), Str(<<" ", "h", "i">>), NaN}

LoadOkFair == LoadFrom(FairReviewValues)

NextFair ==
    \/ LoadOkFair
    \/ LoadFail
    \/ FeedbackGreeting
    \/ FeedbackScored
    \/ FeedbackError
    \/ FeedbackFinish
    \/ Plot
    \/ PrintSummary

FairSpec == Init /\ [][NextFair]_vars /\ WF_vars(NextFair)

(***************************************************************************)
(* clean_text applied on its own to every text of bounded length           *)
(***************************************************************************)
CleanAlphabet == {"a", "B", "_", "!", " ", "\t"}

CleanTexts == SeqsUpTo(CleanAlphabet, MaxLen)

CleanText ==
    /\ pc = "start"
    /\ \E t \in CleanTexts :
          /\ text' = Str(t)
          /\ cleaned_text' = clean_text(Str(t))
    /\ UNCHANGED <<pc, exit_code, data, pos, sentiment_counts,
                   sentiment_scores, processed_reviews, scorer_log,
                   results_csv, chart_png, summary, log>>

NextClean == CleanText

SpecClean == Init /\ [][NextClean]_vars

(***************************************************************************)
(* Properties                                                              *)
(***************************************************************************)
Range(f) == {f[i] : i \in DOMAIN f}

\* a record of the input whose lowercased text is one of the six greetings
GreetingRecord(r) == r.kind = "str" /\ Lower(r.val) \in greetings

\* the positions of the non-greeting records among the first k
NonGreetingUpTo(k) == {i \in 1..k : ~GreetingRecord(data[i])}

\* C1: every polarity the scorer returned is passed on unchanged as the
\* score of the record, with category Positive above 0.1, Negative below
\* -0.1 and Neutral from -0.1 to 0.1 inclusive.
C1_Thresholds ==
    \A i \in 1..Len(scorer_log) :
        ~scorer_log[i].raised =>
            /\ i <= Len(processed_reviews)
            /\ processed_reviews[i].polarity = scorer_log[i].polarity
            /\ (scorer_log[i].polarity > 10
                    => processed_reviews[i].sentiment = "Positive")
            /\ (scorer_log[i].polarity < -10
                    => processed_reviews[i].sentiment = "Negative")
            /\ (scorer_log[i].polarity >= -10 /\ scorer_log[i].polarity <= 10
                    => processed_reviews[i].sentiment = "Neutral")

C1_Witness ==
    /\ Len(scorer_log) = 2
    /\ ~scorer_log[1].raised
    /\ scorer_log[1].polarity = 10
    /\ processed_reviews[1].sentiment = "Neutral"
    /\ processed_reviews[1].polarity = 10
    /\ ~scorer_log[2].raised
    /\ scorer_log[2].polarity = 11
    /\ processed_reviews[2].sentiment = "Positive"

\* C2: after the first pos records are consumed, the three counts sum to the
\* number of those records that are not greetings.
C2_TallyCountsNonGreetings ==
    Total(sentiment_counts) = Cardinality(NonGreetingUpTo(pos))

\* C3: a text equal to a greeting after lowercasing is consumed without a
\* scorer call and without change to the tally, the score series and the
\* Scored records; any other text is not short-circuited: it is passed to
\* the scorer and no assist response is given.
C3_GreetingShortCircuit ==
    [][ (pc = "loop" /\ pos' = pos + 1 /\ data[pos + 1].kind = "str") =>
          IF Lower(data[pos + 1].val) \in greetings
          THEN /\ UNCHANGED <<sentiment_counts, sentiment_scores,
                              processed_reviews, scorer_log>>
               /\ log'[Len(log')] = "Hello! How can I assist you?"
          ELSE /\ Len(scorer_log') = Len(scorer_log) + 1
               /\ log'[Len(log')] # "Hello! How can I assist you?" ]_vars

C3_Witness ==
    /\ pos = 2
    /\ data[1] = Str(<<"H", "I">>)
    /\ data[2] = Str(<<" ", "h", "i">>)
    /\ Len(processed_reviews) = 1
    /\ processed_reviews[1].review = data[2]

\* C4: a review whose scoring raised is stored as a Scored record with
\* category Neutral and polarity 0.0 and is tallied once under Neutral; every
\* scorer call, failed or not, yields exactly one Scored record, and the
\* loop goes on to the next record.
C4_ScoringErrorDefault ==
    /\ Len(processed_reviews) = Len(scorer_log)
    /\ \A i \in 1..Len(scorer_log) :
           scorer_log[i].raised =>
               /\ processed_reviews[i].sentiment = "Neutral"
               /\ processed_reviews[i].polarity = 0
               /\ clean_text(processed_reviews[i].review) = scorer_log[i].arg
    /\ \A c \in Categories :
           sentiment_counts[c] =
               Cardinality({i \in 1..Len(processed_reviews) :
                               processed_reviews[i].sentiment = c})
    /\ pc = "loop" => Len(scorer_log) <= pos

C4_Witness ==
    /\ pos = 2
    /\ Len(scorer_log) = 2
    /\ scorer_log[1].raised
    /\ ~scorer_log[2].raised
    /\ sentiment_counts["Neutral"] = 1
    /\ Len(processed_reviews) = 2

\* C5: the exported table has exactly one row per non-greeting record of the
\* input and none for a greeting, holding the record's text, in input order.
C5_ExportRowPerNonGreeting ==
    results_csv.written =>
        LET expected == SelectSeq(data, LAMBDA r : ~GreetingRecord(r)) IN
        /\ Len(results_csv.rows) = Len(expected)
        /\ \A i \in 1..Len(expected) : results_csv.rows[i][1] = expected[i].val

\* C6: a failed load ends the run with exit status 1 before any record is
\* classified or tallied, and neither the results table nor the chart is
\* written.
C6_LoadFailureExits ==
    ("Data file not found" \in Range(log) \/ "Error loading data" \in Range(log))
        => /\ pc = "exited"
           /\ exit_code = "1"
           /\ pos = 0
           /\ scorer_log = <<>>
           /\ processed_reviews = <<>>
           /\ sentiment_scores = <<>>
           /\ Total(sentiment_counts) = 0
           /\ ~results_csv.written
           /\ ~chart_png
           /\ ~summary.printed

C6_Witness ==
    /\ exit_code = "1"
    /\ "Error loading data" \in Range(log)

\* C7: a failed export or a failed chart does not abort the run: the step
\* that failed hands over to the next reporting step with the tally, the
\* score series and the Scored records unchanged and no exit status set, and
\* a run that reached the reporting steps ends with the summary printed and
\* exit status 0.
C7_ReportingFailuresCaught ==
    /\ [][ (\/ pc = "loop" /\ pc' # "loop" /\ ~results_csv'.written
            \/ pc = "plot" /\ pc' # "plot" /\ ~chart_png')
           => /\ pc' = (IF pc = "loop" THEN "plot" ELSE "summary")
              /\ exit_code' = "running"
              /\ UNCHANGED <<sentiment_counts, sentiment_scores,
                             processed_reviews>> ]_vars
    /\ [](("Goodbye!" \in Range(log) /\ pc = "exited")
             => exit_code = "0" /\ summary.printed)

C7_Witness ==
    /\ pc = "exited"
    /\ exit_code = "0"
    /\ ~results_csv.written
    /\ ~chart_png
    /\ summary.printed
    /\ summary.total = 2

\* C8: the result of clean_text is lowercase, holds only word characters and
\* single spaces, neither starts nor ends with whitespace, and is left
\* unchanged by a second clean_text.
C8_CleanTextIdempotent ==
    text.kind = "str" =>
        LET out == cleaned_text.val IN
        /\ clean_text(cleaned_text) = cleaned_text
        /\ \A i \in 1..Len(out) :
               /\ out[i] = " " \/ IsWord(out[i])
               /\ out[i] \notin UpperChars
               /\ (out[i] = " " => i > 1 /\ i < Len(out) /\ out[i + 1] # " ")

C8_Witness ==
    /\ text = Str(<<"B", "!", "\t">>)
    /\ cleaned_text = Str(<<"b">>)

\* C9: the score series has one entry per Scored record, in the same order
\* and with the record's score, also for records whose scoring failed.
C9_ScoreSeriesMatchesRecords ==
    /\ Len(sentiment_scores) = Len(processed_reviews)
    /\ \A i \in 1..Len(sentiment_scores) :
           i <= Len(processed_reviews)
               => sentiment_scores[i] = processed_reviews[i].polarity

\* C10: after a successful load every step of the loop takes the next record
\* exactly once, the reporting steps start only when all records are
\* consumed, and the run always ends with export, chart and summary
\* attempted and exit status 0, whatever happened at individual records.
C10_SinglePassTerminates ==
    /\ [][pc = "loop" /\ pc' = "loop" => pos' = pos + 1]_vars
    /\ [](pc \in {"plot", "summary"} \/ summary.printed => pos = Len(data))
    /\ (pc = "loop") ~> (/\ pc = "exited"
                         /\ exit_code = "0"
                         /\ "Goodbye!" \in Range(log)
                         /\ summary.printed)

C10_Witness ==
    /\ pc = "exited"
    /\ summary.printed
    /\ Len(data) = 2
    /\ data[1] = NaN
    /\ Len(scorer_log) = 1
    /\ scorer_log[1].raised

====
